---------------------------- MODULE Spec2Model ----------------------------
(***************************************************************************)
(* Model of the asynchronous transcription job service.                    *)
(*                                                                         *)
(* Three subsystems are modelled, each with its own specification over a   *)
(* disjoint group of variables:                                            *)
(*   SpecJob    the job lifecycle (tasks.py, app.py, celery_app.py)        *)
(*   SpecAudit  the hash-chained audit log (audit.py and its migration)    *)
(*   SpecPool   the model pool (model_pool.py)                             *)
(***************************************************************************)
EXTENDS Integers, Sequences, FiniteSets, Bags, TLC

(***************************************************************************)
(* Bounds of the model                                                     *)
(***************************************************************************)
NumWorkers == 2
MaxRedeliveries == 1
MaxCancels == 1
MaxClock == 3
MaxEngineFailures == 2
NumCallers == 3
MaxLogCalls == 3
MaxBatch == 2
NumThreads == 2
MaxAcquires == 3
MaxOom == 2
MaxPoolClock == 3
MaxPoolConfig == 1
MaxDlqDeliveries == 2
MaxRequests == 102
MaxOtherRequests == 2

(***************************************************************************)
(* Program constants                                                       *)
(***************************************************************************)
\* models.py: max_retries = Column(Integer, default=3)
JobMaxRetries == 3
\* tasks.py: @celery_app.task(..., max_retries=5, ...)
TaskMaxRetries == 5
\* auth.py: RATE_LIMIT_REQUESTS = 100
RATE_LIMIT_REQUESTS == 100
\* auth.py: RATE_LIMIT_WINDOW = 60  # seconds
RATE_LIMIT_WINDOW == 60

None == 0

VARIABLES
    \* ---- job lifecycle ----
    job,          \* the committed transcription_jobs row
    results,      \* number of committed transcription_results rows of the job
    errorLogs,    \* number of committed error_logs rows of the job
    queue,        \* bag of task messages held by the broker
    pc,           \* position of each worker slot
    cur,          \* message each worker slot is executing
    now,          \* wall clock (datetime.utcnow)
    nextTaskId,   \* next fresh celery task id
    revoked,      \* task ids revoked through celery control
    cancelPc,     \* position of the DELETE /transcribe/{id} request
    cancelSeen,   \* worker_id loaded by the cancel request
    cancels,      \* number of cancel requests issued
    redeliveries, \* number of broker redeliveries so far
    failures,     \* number of engine/model failures injected so far
    obs,          \* history: retry_count a failing slot found, corrupt retry pending,
                  \* model substitutions, runs of the dead letter handler
    \* ---- audit log ----
    auditLog,       \* committed rows of table audit_log
    apc,            \* position of each caller of AuditLogger.log
    prev,           \* the row a caller's SELECT returned
    sequence_lock,  \* holder of each AuditLogger's _sequence_lock, or None
    returned,       \* event ids returned by log calls
    logRaised,      \* number of log calls that raised
    logCalls,       \* number of log calls started
    nextEventId,    \* next uuid4 value
    auditNow,       \* wall clock read by log
    tampered,       \* sequence number of the row altered in place, or None
    verifyResult,   \* outcome of the last verify_chain_integrity call
    \* ---- model pool ----
    pool_size,      \* ModelPool.pool_size: capacity of each tier's queue
    max_pool_size,  \* ModelPool.max_pool_size
    models,         \* ModelPool._models: tier -> queue of instance ids
    loaded_models,  \* ModelPool._loaded_models: ids of the tracked instances
    instances,      \* every ModelInstance ever created, by id
    stats,          \* ModelPool._stats
    poolNow,        \* wall clock read by the pool
    tpc,            \* position of each thread inside acquire_model
    treq,           \* model_size the thread asked for
    tload,          \* model_size the thread's _load_model is loading
    held,           \* instance the thread's acquire returned (None if none)
    texc,           \* exception the thread's last acquire_model block raised
    acquires,       \* number of acquire calls made so far
    returns,        \* per instance, the number of acquire calls that returned it
    ooms,           \* out-of-memory errors met by the thread's current acquire
    \* ---- API authentication ----
    rate_limit_storage, \* auth.rate_limit_storage: key -> window -> count
    authNow,            \* time.time() in seconds
    resp,               \* the response to the last request
    sent,               \* per key, the window of its last request and the
                        \* number of its requests in that window
    \* ---- POST /transcribe ----
    post                \* the handler's position and its response status

jobVars == <<job, results, errorLogs, queue, pc, cur, now, nextTaskId,
             revoked, cancelPc, cancelSeen, cancels, redeliveries, failures,
             obs>>

auditVars == <<auditLog, apc, prev, sequence_lock, returned, logRaised,
               logCalls, nextEventId, auditNow, tampered, verifyResult>>

poolVars == <<pool_size, max_pool_size, models, loaded_models, instances, stats, poolNow, tpc, treq, tload, held, texc, acquires, returns, ooms>>

authVars == <<rate_limit_storage, authNow, resp, sent>>

submitVars == <<post>>

vars == <<jobVars, auditVars, poolVars, authVars, submitVars>>

Workers == 1..NumWorkers

(***************************************************************************)
(* Job lifecycle: data                                                     *)
(***************************************************************************)
\* tasks.py: size_hierarchy = ["tiny", "base", "small", "medium", "large"]
size_hierarchy == <<"tiny", "base", "small", "medium", "large">>

\* tier index of a model size in size_hierarchy, 0 when absent (list.index
\* raises ValueError)
SizeIndex(size) ==
    IF \E i \in 1..Len(size_hierarchy) : size_hierarchy[i] = size
    THEN CHOOSE i \in 1..Len(size_hierarchy) : size_hierarchy[i] = size
    ELSE 0

\* model sizes a job is submitted with
SubmittedSizes == {"base"}

NoMsg == [kind |-> "none", task_id |-> 0, file |-> "orig",
          model_size |-> "tiny", retries |-> 0, has_job_id |-> FALSE]

TranscribeMsg(id, file, size, retries) ==
    [kind |-> "transcribe", task_id |-> id, file |-> file,
     model_size |-> size, retries |-> retries, has_job_id |-> FALSE]

\* repair_and_retry_task.apply_async(kwargs={'job_id': ..., 'file_path': ...})
RepairMsg(file) ==
    [kind |-> "repair", task_id |-> 0, file |-> file,
     model_size |-> "tiny", retries |-> 0, has_job_id |-> TRUE]

\* dlq_handler_task.apply_async(kwargs={..., 'kwargs': kwargs}); has_job_id
\* tells whether the failed task's kwargs carry 'job_id'
DlqMsg(hasJobId) ==
    [kind |-> "dlq", task_id |-> 0, file |-> "orig",
     model_size |-> "tiny", retries |-> 0, has_job_id |-> hasJobId]

Publish(q, m) == q (+) SetToBag({m})
Remove(q, m) == q (-) SetToBag({m})
InQueue(q) == BagToSet(q)

\* datetime.utcnow(): the clock advances with every reading, up to MaxClock
Tick(t) == IF t < MaxClock THEN t + 1 ELSE t

\* Nothing has failed yet.
NoObs == [rc_before |-> [w \in Workers |-> 0], corrupt_pending |-> FALSE, substitutions |-> 0, dlq_handled |-> 0]

(***************************************************************************)
(* Job lifecycle: initial state.  POST /transcribe has committed a pending *)
(* job and published its task on transcription.high.                       *)
(***************************************************************************)
JobInit ==
    /\ \E size \in SubmittedSizes :
        /\ job = [status |-> "pending", model_size |-> size,
                  worker_id |-> None, retry_count |-> 0,
                  max_retries |-> JobMaxRetries,
                  started_at |-> None, completed_at |-> None,
                  progress_percent |-> 0, error_type |-> "none"]
        /\ queue = SetToBag({TranscribeMsg(1, "orig", size, 0)})
    /\ results = 0
    /\ errorLogs = 0
    /\ pc = [w \in Workers |-> "idle"]
    /\ cur = [w \in Workers |-> NoMsg]
    /\ now = 1
    /\ nextTaskId = 2
    /\ revoked = {}
    /\ cancelPc = "idle"
    /\ cancelSeen = None
    /\ cancels = 0
    /\ redeliveries = 0
    /\ failures = 0
    /\ obs = NoObs
    /\ post = [pc |-> "done", status_code |-> 202]

\* The job one attempt later: the first attempt raised a RuntimeError in the
\* engine, the handler committed retry_count 1 (tasks.py 214-217) and
\* self.retry re-published the message (220).
JobRetriedInit ==
    /\ \E size \in SubmittedSizes :
        /\ job = [status |-> "processing", model_size |-> size,
                  worker_id |-> 1, retry_count |-> 1,
                  max_retries |-> JobMaxRetries,
                  started_at |-> 2, completed_at |-> None,
                  progress_percent |-> 10, error_type |-> "none"]
        /\ queue = SetToBag({TranscribeMsg(1, "orig", size, 1)})
    /\ results = 0
    /\ errorLogs = 0
    /\ pc = [w \in Workers |-> "idle"]
    /\ cur = [w \in Workers |-> NoMsg]
    /\ now = 2
    /\ nextTaskId = 2
    /\ revoked = {}
    /\ cancelPc = "idle"
    /\ cancelSeen = None
    /\ cancels = 0
    /\ redeliveries = 0
    /\ failures = 0
    /\ obs = NoObs
    /\ post = [pc |-> "done", status_code |-> 202]


(***************************************************************************)
(* POST /transcribe                                                        *)
(***************************************************************************)
\* The store before the request: no row for the job, nothing published.
SubmitInit ==
    /\ job = [status |-> "none", model_size |-> "base",
              worker_id |-> None, retry_count |-> 0,
              max_retries |-> JobMaxRetries,
              started_at |-> None, completed_at |-> None,
              progress_percent |-> 0, error_type |-> "none"]
    /\ queue = EmptyBag
    /\ results = 0
    /\ errorLogs = 0
    /\ pc = [w \in Workers |-> "idle"]
    /\ cur = [w \in Workers |-> NoMsg]
    /\ now = 1
    /\ nextTaskId = 2
    /\ revoked = {}
    /\ cancelPc = "idle"
    /\ cancelSeen = None
    /\ cancels = 0
    /\ redeliveries = 0
    /\ failures = 0
    /\ obs = NoObs
    /\ post = [pc |-> "idle", status_code |-> 0]

\* app.py 78-110, 142-145: the upload is too large (413), has the wrong
\* content type (400) or cannot be saved (500); the handler raises before
\* the job row is added.
SubmitRejected(code) ==
    /\ post.pc = "idle"
    /\ code \in {400, 413, 500}
    /\ post' = [pc |-> "done", status_code |-> code]
    /\ UNCHANGED <<jobVars, auditVars, poolVars, authVars>>

\* app.py 112-124: the job row is added with status pending and committed.
SubmitCommit ==
    /\ post.pc = "idle"
    /\ \E size \in SubmittedSizes :
        job' = [job EXCEPT !.status = "pending", !.model_size = size]
    /\ post' = [post EXCEPT !.pc = "committed"]
    /\ UNCHANGED <<results, errorLogs, queue, pc, cur, now, nextTaskId,
                   revoked, cancelPc, cancelSeen, cancels, redeliveries,
                   failures, obs>>
    /\ UNCHANGED <<auditVars, poolVars, authVars>>

\* app.py 127-141: apply_async publishes the task on transcription.high and
\* the handler answers 202.
SubmitPublish ==
    /\ post.pc = "committed"
    /\ queue' = Publish(queue, TranscribeMsg(1, "orig", job.model_size, 0))
    /\ post' = [pc |-> "done", status_code |-> 202]
    /\ UNCHANGED <<job, results, errorLogs, pc, cur, now, nextTaskId,
                   revoked, cancelPc, cancelSeen, cancels, redeliveries,
                   failures, obs>>
    /\ UNCHANGED <<auditVars, poolVars, authVars>>

\* app.py 127-131, 142-145: apply_async raises (the broker cannot be
\* reached); the generic handler answers 500.  It neither deletes the
\* committed row nor changes its status.
SubmitPublishFailed ==
    /\ post.pc = "committed"
    /\ post' = [pc |-> "done", status_code |-> 500]
    /\ UNCHANGED <<jobVars, auditVars, poolVars, authVars>>

(***************************************************************************)
(* Celery plumbing                                                         *)
(***************************************************************************)
\* celery_app.py 77-118 send_to_dlq, installed as on_failure of every task
\* (67-74): a task that ends with an exception calls it.  Its first
\* statement is logger.error(..., extra={..., 'args': args, ...}) (94-103);
\* logging refuses an extra key that names an attribute of LogRecord and
\* raises KeyError("Attempt to overwrite 'args' in LogRecord").  The
\* enclosing try/except (116-118) logs that and returns, so
\* dlq_handler_task.apply_async (106-115) is never reached and the queue is
\* left as it is.
send_to_dlq_Published(q, m) == Publish(q, DlqMsg(m.has_job_id))

send_to_dlq(q, m) == q

\* Task.retry(exc=e): re-publishes the message under the same task id with
\* retries + 1; once request.retries has reached max_retries it raises exc
\* instead and the task fails.
retry(q, m, m2) ==
    IF m.retries < TaskMaxRetries
    THEN Publish(q, [m2 EXCEPT !.retries = m.retries + 1])
    ELSE send_to_dlq(q, m)

Terminal == {"completed", "failed", "cancelled"}

TranscribePcs == {"acquiring", "transcribing", "saving", "corrupt_decide",
                  "runtime_decide", "oom_decide"}

Finish(w) ==
    /\ pc' = [pc EXCEPT ![w] = "idle"]
    /\ cur' = [cur EXCEPT ![w] = NoMsg]

(***************************************************************************)
(* transcribe_audio_task                                                   *)
(***************************************************************************)
\* The status the task writes when it picks the job up.
StartStatus(old) == "processing"

\* tasks.py 85-99: load the job and commit status processing, started_at,
\* worker_id and progress 10.  The write does not depend on the stored
\* status.
TranscribeStart(w) ==
    /\ pc[w] = "idle"
    /\ \E m \in InQueue(queue) :
        /\ m.kind = "transcribe"
        /\ queue' = Remove(queue, m)
        /\ cur' = [cur EXCEPT ![w] = m]
        /\ job' = [job EXCEPT !.status = StartStatus(job.status),
                              !.started_at = Tick(now),
                              !.worker_id = m.task_id,
                              !.progress_percent = 10]
    /\ now' = Tick(now)
    /\ pc' = [pc EXCEPT ![w] = "acquiring"]
    /\ UNCHANGED <<results, errorLogs, nextTaskId, revoked, cancelPc,
                   cancelSeen, cancels, redeliveries, failures>>
    /\ obs' = [obs EXCEPT !.corrupt_pending = FALSE]
    /\ UNCHANGED <<auditVars, poolVars, authVars, submitVars>>

\* tasks.py 105-112: the model is acquired; commit progress 30.
TranscribeAcquired(w) ==
    /\ pc[w] = "acquiring"
    /\ job' = [job EXCEPT !.progress_percent = 30]
    /\ pc' = [pc EXCEPT ![w] = "transcribing"]
    /\ UNCHANGED <<results, errorLogs, queue, cur, now, nextTaskId,
                   revoked, cancelPc, cancelSeen, cancels, redeliveries,
                   failures>>
    /\ UNCHANGED obs
    /\ UNCHANGED <<auditVars, poolVars, authVars, submitVars>>

\* tasks.py 118-132: the engine returns a result; commit progress 90.
TranscribeEngineOk(w) ==
    /\ pc[w] = "transcribing"
    /\ job' = [job EXCEPT !.progress_percent = 90]
    /\ pc' = [pc EXCEPT ![w] = "saving"]
    /\ UNCHANGED <<results, errorLogs, queue, cur, now, nextTaskId,
                   revoked, cancelPc, cancelSeen, cancels, redeliveries,
                   failures>>
    /\ UNCHANGED obs
    /\ UNCHANGED <<auditVars, poolVars, authVars, submitVars>>

\* models.py 92: transcription_results.job_id is unique; an insert for a job
\* that already has a row fails at commit.
ResultInsertAllowed(n) == n = 0

\* tasks.py 157-173: insert the Result and mark the job completed in one
\* commit.  When the insert violates the unique job_id the commit rolls
\* back and the generic handler (265-273) commits status failed; the task
\* ends with the exception.
TranscribeComplete(w) ==
    /\ pc[w] = "saving"
    /\ IF ResultInsertAllowed(results)
       THEN /\ results' = results + 1
            /\ job' = [job EXCEPT !.status = "completed",
                                  !.completed_at = Tick(now),
                                  !.progress_percent = 100]
            /\ queue' = queue
       ELSE /\ results' = results
            /\ job' = [job EXCEPT !.status = "failed",
                                  !.error_type = "IntegrityError",
                                  !.completed_at = Tick(now)]
            /\ queue' = send_to_dlq(queue, cur[w])
    /\ now' = Tick(now)
    /\ Finish(w)
    /\ UNCHANGED <<errorLogs, nextTaskId, revoked, cancelPc,
                   cancelSeen, cancels, redeliveries, failures>>
    /\ UNCHANGED obs
    /\ UNCHANGED <<auditVars, poolVars, authVars, submitVars>>

\* tasks.py 185-196, 214-217, 229-233: a RuntimeError or MemoryError raised
\* by the model pool or the engine; the handler commits retry_count + 1
\* before it decides.
TranscribeCountedFailure(w, kind) ==
    /\ pc[w] \in {"acquiring", "transcribing"}
    /\ kind \in {"corrupt", "runtime", "oom"}
    /\ failures < MaxEngineFailures
    /\ failures' = failures + 1
    /\ job' = [job EXCEPT !.retry_count = job.retry_count + 1]
    /\ pc' = [pc EXCEPT ![w] = CASE kind = "corrupt" -> "corrupt_decide"
                                 [] kind = "runtime" -> "runtime_decide"
                                 [] kind = "oom" -> "oom_decide"]
    /\ UNCHANGED <<results, errorLogs, queue, cur, now, nextTaskId,
                   revoked, cancelPc, cancelSeen, cancels, redeliveries>>
    /\ obs' = [obs EXCEPT !.rc_before[w] = job.retry_count]
    /\ UNCHANGED <<auditVars, poolVars, authVars, submitVars>>

\* tasks.py 198-212: corrupt audio.  With retries left, schedule the repair
\* task and retry this task; otherwise commit failed and re-raise.
TranscribeCorruptDecide(w) ==
    /\ pc[w] = "corrupt_decide"
    /\ IF job.retry_count < job.max_retries
       THEN /\ queue' = retry(Publish(queue, RepairMsg(cur[w].file)),
                              cur[w], cur[w])
            /\ UNCHANGED <<job, now>>
       ELSE /\ job' = [job EXCEPT !.status = "failed",
                                  !.error_type = "CorruptAudioFile",
                                  !.completed_at = Tick(now)]
            /\ now' = Tick(now)
            /\ queue' = send_to_dlq(queue, cur[w])
    /\ Finish(w)
    /\ UNCHANGED <<results, errorLogs, nextTaskId, revoked, cancelPc,
                   cancelSeen, cancels, redeliveries, failures>>
    /\ obs' = [obs EXCEPT !.rc_before[w] = 0, !.corrupt_pending = (@ \/ job.retry_count < job.max_retries)]
    /\ UNCHANGED <<auditVars, poolVars, authVars, submitVars>>

\* tasks.py 219-227: any other RuntimeError.
TranscribeRuntimeDecide(w) ==
    /\ pc[w] = "runtime_decide"
    /\ IF job.retry_count < job.max_retries
       THEN /\ queue' = retry(queue, cur[w], cur[w])
            /\ UNCHANGED <<job, now>>
       ELSE /\ job' = [job EXCEPT !.status = "failed",
                                  !.error_type = "RuntimeError",
                                  !.completed_at = Tick(now)]
            /\ now' = Tick(now)
            /\ queue' = send_to_dlq(queue, cur[w])
    /\ Finish(w)
    /\ UNCHANGED <<results, errorLogs, nextTaskId, revoked, cancelPc,
                   cancelSeen, cancels, redeliveries, failures>>
    /\ obs' = [obs EXCEPT !.rc_before[w] = 0]
    /\ UNCHANGED <<auditVars, poolVars, authVars, submitVars>>

\* tasks.py 235-263: MemoryError.  With a smaller size and retries left,
\* commit status retry with the smaller size and retry the task with it;
\* otherwise commit failed and re-raise.
TranscribeOomDecide(w) ==
    /\ pc[w] = "oom_decide"
    /\ LET idx == SizeIndex(cur[w].model_size) IN
       IF idx > 1 /\ job.retry_count < job.max_retries
       THEN /\ job' = [job EXCEPT !.status = "retry",
                                  !.model_size = size_hierarchy[idx - 1]]
            /\ queue' = retry(queue, cur[w],
                              [cur[w] EXCEPT
                                 !.model_size = size_hierarchy[idx - 1]])
            /\ now' = now
       ELSE /\ job' = [job EXCEPT !.status = "failed",
                                  !.error_type = "MemoryError",
                                  !.completed_at = Tick(now)]
            /\ now' = Tick(now)
            /\ queue' = send_to_dlq(queue, cur[w])
    /\ Finish(w)
    /\ UNCHANGED <<results, errorLogs, nextTaskId, revoked, cancelPc,
                   cancelSeen, cancels, redeliveries, failures>>
    /\ obs' = [obs EXCEPT !.rc_before[w] = 0, !.substitutions = IF job'.status = "retry" THEN @ + 1 ELSE @]
    /\ UNCHANGED <<auditVars, poolVars, authVars, submitVars>>

\* Exceptions that reach the generic handler: a missing file, a lost
\* connection, anything else.
OtherKinds == {"other", "conn", "notfound"}

\* type(e).__name__
TypeName(kind) ==
    CASE kind = "conn" -> "ConnectionError"
      [] kind = "notfound" -> "FileNotFoundError"
      [] OTHER -> "Exception"

\* tasks.py 265-273 with the task decorator (56): any other exception.  The
\* handler commits failed and re-raises; ConnectionError and TimeoutError
\* are in autoretry_for, so the task is then retried by celery.
TranscribeOtherFailure(w, kind) ==
    /\ pc[w] \in {"acquiring", "transcribing"}
    /\ kind \in OtherKinds
    /\ failures < MaxEngineFailures
    /\ failures' = failures + 1
    /\ job' = [job EXCEPT !.status = "failed",
                          !.error_type = TypeName(kind),
                          !.completed_at = Tick(now)]
    /\ now' = Tick(now)
    /\ queue' = IF kind = "conn"
                THEN retry(queue, cur[w], cur[w])
                ELSE send_to_dlq(queue, cur[w])
    /\ Finish(w)
    /\ UNCHANGED <<results, errorLogs, nextTaskId, revoked, cancelPc,
                   cancelSeen, cancels, redeliveries>>
    /\ UNCHANGED obs
    /\ UNCHANGED <<auditVars, poolVars, authVars, submitVars>>

(***************************************************************************)
(* repair_and_retry_task                                                   *)
(***************************************************************************)
\* tasks.py 410-465: the repair succeeds and a new transcription task for
\* the repaired file is published with the job's stored model size.
RepairOk(w) ==
    /\ pc[w] = "idle"
    /\ \E m \in InQueue(queue) :
        /\ m.kind = "repair"
        /\ queue' = Publish(Remove(queue, m),
                            TranscribeMsg(nextTaskId, "repaired",
                                          job.model_size, 0))
    /\ nextTaskId' = nextTaskId + 1
    /\ UNCHANGED <<job, results, errorLogs, pc, cur, now, revoked,
                   cancelPc, cancelSeen, cancels, redeliveries, failures>>
    /\ UNCHANGED obs
    /\ UNCHANGED <<auditVars, poolVars, authVars, submitVars>>

\* tasks.py 467-471: the repair fails; the task ends with the exception and
\* on_failure calls send_to_dlq with its kwargs (job_id among them).
RepairFailed(w) ==
    /\ pc[w] = "idle"
    /\ failures < MaxEngineFailures
    /\ failures' = failures + 1
    /\ \E m \in InQueue(queue) :
        /\ m.kind = "repair"
        /\ queue' = send_to_dlq(Remove(queue, m), m)
    /\ UNCHANGED <<job, results, errorLogs, pc, cur, now, nextTaskId,
                   revoked, cancelPc, cancelSeen, cancels, redeliveries,
                   obs>>
    /\ UNCHANGED <<auditVars, poolVars, authVars, submitVars>>

(***************************************************************************)
(* dlq_handler_task                                                        *)
(***************************************************************************)
\* tasks.py 344-366: the handler runs for a message delivered on
\* transcription.dlq (worker.py 55), whoever published it.  Its first
\* statement is logger.error(..., extra={..., 'args': args, ...}), which
\* raises KeyError (see send_to_dlq): the task fails before it reads job_id,
\* adds an ErrorLog or touches the job (368-405), and on_failure calls
\* send_to_dlq for it.
DlqHandler(w, hasJobId) ==
    /\ pc[w] = "idle"
    /\ obs.dlq_handled < MaxDlqDeliveries
    /\ obs' = [obs EXCEPT !.dlq_handled = @ + 1]
    /\ queue' = send_to_dlq(queue, DlqMsg(hasJobId))
    /\ UNCHANGED <<job, results, errorLogs, pc, cur, now, nextTaskId,
                   revoked, cancelPc, cancelSeen, cancels, redeliveries,
                   failures>>
    /\ UNCHANGED <<auditVars, poolVars, authVars, submitVars>>

(***************************************************************************)
(* DELETE /transcribe/{job_id}                                             *)
(***************************************************************************)
\* app.py 204-213: the job is terminal; respond 400.
CancelRejected ==
    /\ cancelPc = "idle"
    /\ cancels < MaxCancels
    /\ job.status \in Terminal
    /\ cancels' = cancels + 1
    /\ UNCHANGED <<job, results, errorLogs, queue, pc, cur, now,
                   nextTaskId, revoked, cancelPc, cancelSeen, redeliveries,
                   failures>>
    /\ UNCHANGED obs
    /\ UNCHANGED <<auditVars, poolVars, authVars, submitVars>>

\* app.py 204-213: the job is loaded and is not terminal.
CancelRead ==
    /\ cancelPc = "idle"
    /\ cancels < MaxCancels
    /\ job.status \notin Terminal
    /\ cancels' = cancels + 1
    /\ cancelSeen' = job.worker_id
    /\ cancelPc' = "write"
    /\ UNCHANGED <<job, results, errorLogs, queue, pc, cur, now,
                   nextTaskId, revoked, redeliveries, failures>>
    /\ UNCHANGED obs
    /\ UNCHANGED <<auditVars, poolVars, authVars, submitVars>>

\* app.py 215-223: revoke the task when the loaded row has a worker_id,
\* then commit status cancelled and completed_at.
CancelWrite ==
    /\ cancelPc = "write"
    /\ revoked' = IF cancelSeen # None THEN revoked \cup {cancelSeen}
                  ELSE revoked
    /\ job' = [job EXCEPT !.status = "cancelled",
                          !.completed_at = Tick(now)]
    /\ now' = Tick(now)
    /\ cancelPc' = "idle"
    /\ cancelSeen' = None
    /\ UNCHANGED <<results, errorLogs, queue, pc, cur, nextTaskId,
                   cancels, redeliveries, failures>>
    /\ UNCHANGED obs
    /\ UNCHANGED <<auditVars, poolVars, authVars, submitVars>>

\* celery revoke(terminate=True), best effort: a slot running a revoked
\* task id may be killed; the message is acknowledged.
RevokeTerminate(w) ==
    /\ pc[w] \in TranscribePcs
    /\ cur[w].task_id \in revoked
    /\ Finish(w)
    /\ UNCHANGED <<job, results, errorLogs, queue, now, nextTaskId,
                   revoked, cancelPc, cancelSeen, cancels, redeliveries,
                   failures>>
    /\ obs' = [obs EXCEPT !.rc_before[w] = 0]
    /\ UNCHANGED <<auditVars, poolVars, authVars, submitVars>>

\* a worker that knows a task id as revoked discards its message on receipt
RevokeDiscard ==
    /\ \E m \in InQueue(queue) :
        /\ m.kind = "transcribe"
        /\ m.task_id \in revoked
        /\ queue' = Remove(queue, m)
    /\ UNCHANGED <<job, results, errorLogs, pc, cur, now, nextTaskId,
                   revoked, cancelPc, cancelSeen, cancels, redeliveries,
                   failures>>
    /\ UNCHANGED obs
    /\ UNCHANGED <<auditVars, poolVars, authVars, submitVars>>

(***************************************************************************)
(* Broker: at-least-once delivery (task_acks_late,                         *)
(* task_reject_on_worker_lost)                                             *)
(***************************************************************************)
\* the unacknowledged message of a slot that is still running, or that was
\* lost and runs no further, is delivered again
Redeliver(w) ==
    /\ pc[w] # "idle"
    /\ redeliveries < MaxRedeliveries
    /\ redeliveries' = redeliveries + 1
    /\ queue' = Publish(queue, cur[w])
    /\ UNCHANGED <<job, results, errorLogs, pc, cur, now, nextTaskId,
                   revoked, cancelPc, cancelSeen, cancels, failures>>
    /\ UNCHANGED obs
    /\ UNCHANGED <<auditVars, poolVars, authVars, submitVars>>

\* what the workers do with the transcription and repair messages
WorkerNext ==
    \/ \E w \in Workers : TranscribeStart(w)
    \/ \E w \in Workers : TranscribeAcquired(w)
    \/ \E w \in Workers : TranscribeEngineOk(w)
    \/ \E w \in Workers : TranscribeComplete(w)
    \/ \E w \in Workers : \E kind \in {"corrupt", "runtime", "oom"} :
          TranscribeCountedFailure(w, kind)
    \/ \E w \in Workers : TranscribeCorruptDecide(w)
    \/ \E w \in Workers : TranscribeRuntimeDecide(w)
    \/ \E w \in Workers : TranscribeOomDecide(w)
    \/ \E w \in Workers : \E kind \in OtherKinds :
          TranscribeOtherFailure(w, kind)
    \/ \E w \in Workers : RepairOk(w)
    \/ \E w \in Workers : RepairFailed(w)

\* the workers, the clients that cancel and the broker that redelivers
JobNext ==
    \/ WorkerNext
    \/ CancelRejected
    \/ CancelRead
    \/ CancelWrite
    \/ \E w \in Workers : RevokeTerminate(w)
    \/ RevokeDiscard
    \/ \E w \in Workers : Redeliver(w)

\* The steps that are taken whenever they stay possible: a worker slot that
\* holds a task runs it to its end (the engine returns or raises), the
\* broker delivers every queued message and every revoke request
\* (worker.py 40-60, celery_app.py 49-52), and the cancel handler, once it
\* has read the job, goes on to its commit (app.py 216-223).  Cancel
\* requests and redeliveries are not among them: nothing obliges a client
\* to cancel or a worker to be lost.
JobProgress ==
    \/ WorkerNext
    \/ CancelWrite
    \/ \E w \in Workers : RevokeTerminate(w)
    \/ RevokeDiscard

\* the workers, with deliveries on transcription.dlq
DlqNext ==
    \/ WorkerNext
    \/ \E w \in Workers : \E hasJobId \in BOOLEAN : DlqHandler(w, hasJobId)

\* the submit handler followed by the workers
SubmitNext ==
    \/ \E code \in {400, 413, 500} : SubmitRejected(code)
    \/ SubmitCommit
    \/ SubmitPublish
    \/ SubmitPublishFailed
    \/ WorkerNext

(***************************************************************************)
(* Claims about the job lifecycle                                          *)
(***************************************************************************)
AllowedTransitions ==
    {<<"pending", "processing">>, <<"pending", "cancelled">>,
     <<"processing", "completed">>, <<"processing", "failed">>,
     <<"processing", "retry">>, <<"processing", "cancelled">>,
     <<"retry", "processing">>, <<"retry", "cancelled">>}

\* C1: every change of the job's status, by any operation, is one of the
\* allowed transitions; completed, failed and cancelled never change.
C1_OnlyAllowedTransitions ==
    [][job'.status # job.status =>
          <<job.status, job'.status>> \in AllowedTransitions]_vars

\* C2: once a delivery has completed the job (one Result, status
\* completed), no step of a worker on a re-delivered message writes a
\* second Result or moves the job out of completed.
C2_RedeliveryKeepsCompleted ==
    [][(job.status = "completed" /\ results = 1
          /\ \E w \in Workers : pc'[w] # pc[w])
        => (job'.status = "completed" /\ results' = 1)]_vars

\* C3: of two workers that consume the same message, at most one gets past
\* the transition to processing (sets started_at, worker_id, progress and
\* runs the engine).
C3_OneWorkerPerMessage ==
    \A w1, w2 \in Workers :
        (/\ pc[w1] \in TranscribePcs
         /\ pc[w2] \in TranscribePcs
         /\ cur[w1] = cur[w2]) => w1 = w2

\* C4: once the job is cancelled, no step writes a Result for it or
\* changes its status.
C4_CancelledIsFinal ==
    [][job.status = "cancelled" =>
          (job'.status = "cancelled" /\ results' = results)]_vars

\* Nothing is queued or running any more.
Quiescent == queue = EmptyBag /\ cancelPc = "idle" /\ \A w \in Workers : pc[w] = "idle"

\* C15: retry_count never exceeds max_retries and equals it only while the
\* job is failed, in every committed state.
C15_RetryCountWithinMax ==
    /\ job.retry_count <= job.max_retries
    /\ job.retry_count = job.max_retries => job.status = "failed"

\* C16: once everything queued for a failed job has been handled, the job
\* has at least one ErrorLog row.
C16_FailedJobHasErrorLog ==
    (job.status = "failed" /\ Quiescent) => errorLogs >= 1

\* C17: a failure of a kind other than FileNotFound / PermissionError marks
\* the job failed only when its retries are used up, and a FileNotFound
\* failure marks it failed without publishing another attempt.
C17_RetryIffRecoverable ==
    [][/\ (job'.status = "failed" /\ job.status # "failed"
             /\ job'.error_type \notin {"FileNotFoundError", "PermissionError"})
          => job'.retry_count >= job'.max_retries
       /\ \A w \in Workers :
            (pc[w] \in {"acquiring", "transcribing"} /\ pc'[w] = "idle"
               /\ failures' # failures /\ job'.error_type = "FileNotFoundError")
            => (job'.status = "failed"
                  /\ \A m \in InQueue(queue') :
                        m.kind = "transcribe" => CopiesIn(m, queue') = CopiesIn(m, queue))]_vars

\* C18: the step that answers a MemoryError by re-publishing the job with
\* the next smaller tier leaves retry_count as it was before the failure,
\* and a job sees at most len(tiers) - 1 such substitutions.
C18_OomFallbackKeepsRetryCount ==
    [][/\ \A w \in Workers :
            (pc[w] = "oom_decide" /\ pc'[w] = "idle" /\ queue' # queue
               /\ job'.status = "retry")
            => job'.retry_count = obs.rc_before[w]
       /\ obs'.substitutions <= Len(size_hierarchy) - 1]_vars

\* C19: the transcription attempt that starts next after a corrupt-audio
\* failure with retries left runs on the repaired file.
C19_NextAttemptUsesRepairedFile ==
    [][\A w \in Workers :
        (pc[w] = "idle" /\ pc'[w] = "acquiring" /\ obs.corrupt_pending)
            => cur'[w].file = "repaired"]_vars

\* C20: the job has a Result row exactly when its status is completed.
C20_ResultIffCompleted ==
    (results >= 1) <=> (job.status = "completed")

\* C21: in no reachable state is the job's completed_at earlier than its
\* started_at.
C21_CompletedNotBeforeStarted ==
    (job.started_at # None /\ job.completed_at # None)
        => job.completed_at >= job.started_at

\* C22: completed_at is set exactly when the status is completed, failed
\* or cancelled.
C22_CompletedAtIffTerminal ==
    (job.completed_at # None) <=> (job.status \in Terminal)

\* A handler hands the task back to the broker for another attempt.
RetryStep == \E w \in Workers : pc[w] \in {"corrupt_decide", "runtime_decide", "oom_decide"} /\ pc'[w] = "idle" /\ job'.status # "failed"

\* C23: progress_percent never decreases from one committed state to the
\* next, except on a retry, which resets it to 0.
C23_ProgressMonotoneExceptRetry ==
    [][job'.progress_percent < job.progress_percent
          => (RetryStep /\ job'.progress_percent = 0)]_vars

\* A slot or the broker takes a transcription message off the queue.
ConsumesTranscribe == \E m \in InQueue(queue) : m.kind = "transcribe" /\ CopiesIn(m, queue') < CopiesIn(m, queue)

\* C24: a transcription message consumed while the job is completed, failed
\* or cancelled is dropped: no slot starts working on it and the job row,
\* its Result and its ErrorLog rows stay as they are.
C24_TerminalJobMessageDropped ==
    [][(job.status \in Terminal /\ ConsumesTranscribe)
          => (job' = job /\ results' = results /\ errorLogs' = errorLogs
              /\ pc' = pc)]_vars

\* The DELETE request commits.
CancelCommits == cancelPc = "write" /\ cancelPc' = "idle"

\* C25: a cancel request changes the job only if the stored status is
\* pending, processing or retry at the moment of its write; it then sets
\* status cancelled and completed_at.  On a job that is completed, failed
\* or cancelled it changes nothing.
C25_CancelIsCompareAndSet ==
    [][CancelCommits =>
          IF job.status \in Terminal
          THEN job' = job
          ELSE job' = [job EXCEPT !.status = "cancelled",
                                  !.completed_at = now']]_vars

\* The audit action that records the job entering a status.
AuditActionOf(status) ==
    CASE status = "pending" -> "job.create"
      [] status = "processing" -> "job.process.start"
      [] status = "completed" -> "job.complete"
      [] status = "failed" -> "job.fail"
      [] status = "cancelled" -> "job.cancel"
      [] OTHER -> "job.retry"

\* C28: every change of the job's status comes with a new audit record of
\* the matching action.
C28_TransitionsAreAudited ==
    [][job'.status # job.status =>
          \E r \in auditLog' \ auditLog :
              r.action = AuditActionOf(job'.status)]_vars

\* C29: once the dead-letter message of the job has been handled, whether
\* once or twice, the job has exactly one ErrorLog row.
C29_OneErrorLogPerDeadLetter ==
    obs.dlq_handled >= 1 => errorLogs = 1

\* C40: under the fairness of SpecJobLive the job does not stay pending,
\* processing or retry for ever: whatever has happened, it is completed,
\* failed or cancelled again later.
C40_JobEventuallyTerminal ==
    []<>(job.status \in Terminal)

\* the transcription attempts of the job that are queued or running
TranscribeAttempts ==
    LET queued == {m \in InQueue(queue) : m.kind = "transcribe"}
    IN  BagCardinality([m \in queued |-> queue[m]])
        + Cardinality({w \in Workers : pc[w] \in TranscribePcs})

\* C37: as long as the broker has redelivered nothing, at most one
\* transcription attempt of the job is queued or running.
C37_AtMostOneAttempt ==
    redeliveries = 0 => TranscribeAttempts <= 1

\* C38: when POST /transcribe has answered with an error, the store holds
\* no pending job without a transcription task queued or running for it.
C38_NoOrphanAfterErrorResponse ==
    (post.pc = "done" /\ post.status_code >= 400)
        => ~(job.status = "pending" /\ TranscribeAttempts = 0)

Callers == 1..NumCallers

\* Callers 1 and 2 are threads sharing one AuditLogger; every later pair
\* shares a logger of another worker process.
LoggerOf(c) == (c + 1) \div 2

Loggers == {LoggerOf(c) : c \in Callers}

\* audit.py 122, 235: "0" * 64
Sentinel == <<"0000000000000000000000000000000000000000000000000000000000000000">>

\* Python None where a string is expected (an absent hash is the empty
\* tuple)
NoneStr == "<None>"
NoHash == <<>>

\* hashlib.sha256(...).hexdigest(), taken as collision free
sha256(input) == <<"sha256", input>>

\* datetime.utcnow(): a naive datetime
utcnow(t) == [t |-> t, tzinfo |-> "none"]

\* column event_timestamp is DateTime(timezone=True): the stored value is
\* read back as a timezone-aware datetime
timestamptz(ts) == [t |-> ts.t, tzinfo |-> "utc"]

\* datetime.isoformat(): an aware datetime carries its UTC offset
isoformat(ts) == <<ts.t, IF ts.tzinfo = "none" THEN "" ELSE "+00:00">>

\* f"{x}" of an optional string
fstr(x) == IF x = NoneStr THEN "None" ELSE x

\* audit.py 127-131 and 267-271
hash_input(event_id, ts, action, rtype, rid, uid, outcome, prev_hash) ==
    <<event_id, isoformat(ts), action, rtype, fstr(rid), fstr(uid), outcome,
      prev_hash>>

NoRow == [sequence_number |-> 0, record_hash |-> NoHash]

\* SELECT sequence_number, record_hash FROM audit_log
\* ORDER BY sequence_number DESC LIMIT 1
LastRow(log) ==
    IF log = {} THEN NoRow
    ELSE LET r == CHOOSE r \in log :
                    \A q \in log : q.sequence_number <= r.sequence_number
         IN [sequence_number |-> r.sequence_number,
             record_hash |-> r.record_hash]

\* audit.py 117-122
next_sequence_number(p) ==
    IF p # NoRow THEN p.sequence_number + 1 ELSE 1

\* the chain link is dropped: every record gets the sentinel
next_previous_hash_Unchained(p) == Sentinel

\* audit.py 117-122
next_previous_hash(p) ==
    IF p # NoRow THEN p.record_hash ELSE Sentinel

\* the index on sequence_number is not unique
SequenceIsFree_NotUnique(log, seq) == TRUE

\* migration 101-106: unique index idx_audit_log_sequence
SequenceIsFree(log, seq) ==
    \A r \in log : r.sequence_number # seq

AuditActions == {"job.create", "job.cancel"}
ResourceIds == {NoneStr, "job-1"}

NoResult == [called |-> FALSE, start_seq |-> 0, batch_size |-> 0,
             valid |-> TRUE, first_invalid |-> None, tampered |-> None]

AuditInit ==
    /\ auditLog = {}
    /\ apc = [c \in Callers |-> "idle"]
    /\ prev = [c \in Callers |-> NoRow]
    /\ sequence_lock = [l \in Loggers |-> None]
    /\ returned = {}
    /\ logRaised = 0
    /\ logCalls = 0
    /\ nextEventId = 1
    /\ auditNow = 1
    /\ tampered = None
    /\ verifyResult = NoResult

(***************************************************************************)
(* AuditLogger.log                                                         *)
(***************************************************************************)
\* audit.py 106-122: take the logger's lock and read the last row.
LogSelect(c) ==
    /\ apc[c] = "idle"
    /\ logCalls < MaxLogCalls
    /\ sequence_lock[LoggerOf(c)] = None
    /\ sequence_lock' = [sequence_lock EXCEPT ![LoggerOf(c)] = c]
    /\ prev' = [prev EXCEPT ![c] = LastRow(auditLog)]
    /\ apc' = [apc EXCEPT ![c] = "selected"]
    /\ logCalls' = logCalls + 1
    /\ UNCHANGED <<auditLog, returned, logRaised, nextEventId, auditNow,
                   tampered, verifyResult>>
    /\ UNCHANGED <<jobVars, poolVars, authVars, submitVars>>

\* audit.py 124-199: compute the hash, insert and commit, release the lock
\* and return the event id; when the sequence number is taken the insert
\* raises, the transaction is rolled back and the call raises.
LogInsert(c) ==
    /\ apc[c] = "selected"
    /\ \E action \in AuditActions, resource_id \in ResourceIds :
        LET sequence_number == next_sequence_number(prev[c])
            previous_hash == next_previous_hash(prev[c])
            event_timestamp == utcnow(auditNow)
            event_id == nextEventId
            record_hash ==
                sha256(hash_input(event_id, event_timestamp, action,
                                  "transcription_job", resource_id, NoneStr,
                                  "success", previous_hash))
        IN IF SequenceIsFree(auditLog, sequence_number)
           THEN /\ auditLog' = auditLog \cup
                     {[sequence_number |-> sequence_number,
                       event_id |-> event_id,
                       event_timestamp |-> timestamptz(event_timestamp),
                       action |-> action,
                       resource_type |-> "transcription_job",
                       resource_id |-> resource_id,
                       user_id |-> NoneStr,
                       outcome |-> "success",
                       previous_hash |-> previous_hash,
                       record_hash |-> record_hash]}
                /\ returned' = returned \cup {event_id}
                /\ logRaised' = logRaised
           ELSE /\ logRaised' = logRaised + 1
                /\ UNCHANGED <<auditLog, returned>>
    /\ nextEventId' = nextEventId + 1
    /\ auditNow' = auditNow + 1
    /\ sequence_lock' = [sequence_lock EXCEPT ![LoggerOf(c)] = None]
    /\ prev' = [prev EXCEPT ![c] = NoRow]
    /\ apc' = [apc EXCEPT ![c] = "idle"]
    /\ UNCHANGED <<logCalls, tampered, verifyResult>>
    /\ UNCHANGED <<jobVars, poolVars, authVars, submitVars>>

(***************************************************************************)
(* AuditLogger.verify_chain_integrity                                      *)
(***************************************************************************)
RECURSIVE OrderBySequence(_)
\* ORDER BY sequence_number ASC
OrderBySequence(rows) ==
    IF rows = {} THEN <<>>
    ELSE LET r == CHOOSE r \in rows :
                    \A q \in rows : r.sequence_number <= q.sequence_number
         IN <<r>> \o OrderBySequence(rows \ {r})

\* audit.py 239-250
Batch(log, current_seq, batch_size) ==
    OrderBySequence({r \in log : /\ r.sequence_number >= current_seq
                                 /\ r.sequence_number < current_seq + batch_size})

\* audit.py 267-272: the hash recomputed from the fields of the row as read
RecomputedHash(record) ==
    sha256(hash_input(record.event_id, record.event_timestamp,
                      record.action, record.resource_type,
                      record.resource_id, record.user_id, record.outcome,
                      record.previous_hash))

RECURSIVE VerifyRecords(_, _)
\* audit.py 255-285: the loop over one batch
VerifyRecords(records, expected_prev_hash) ==
    IF records = <<>>
    THEN [valid |-> TRUE, first_invalid |-> None,
          expected_prev_hash |-> expected_prev_hash]
    ELSE LET record == Head(records) IN
         IF /\ expected_prev_hash # NoHash
            /\ record.previous_hash # expected_prev_hash
         THEN [valid |-> FALSE, first_invalid |-> record.sequence_number,
               expected_prev_hash |-> expected_prev_hash]
         ELSE IF record.record_hash # RecomputedHash(record)
         THEN [valid |-> FALSE, first_invalid |-> record.sequence_number,
               expected_prev_hash |-> expected_prev_hash]
         ELSE VerifyRecords(Tail(records), record.record_hash)

RECURSIVE VerifyBatches(_, _, _, _)
\* audit.py 237-289: the loop over the batches
VerifyBatches(log, current_seq, batch_size, expected_prev_hash) ==
    LET records == Batch(log, current_seq, batch_size) IN
    IF records = <<>>
    THEN <<TRUE, None>>
    ELSE LET res == VerifyRecords(records, expected_prev_hash) IN
         IF ~res.valid
         THEN <<FALSE, res.first_invalid>>
         ELSE VerifyBatches(log, current_seq + batch_size, batch_size,
                            res.expected_prev_hash)

\* audit.py 222-235
InitialExpectedHash(log, start_seq) ==
    IF start_seq > 1
    THEN IF \E r \in log : r.sequence_number = start_seq - 1
         THEN (CHOOSE r \in log :
                   r.sequence_number = start_seq - 1).record_hash
         ELSE NoHash
    ELSE Sentinel

verify_chain_integrity(log, start_seq, batch_size) ==
    VerifyBatches(log, start_seq, batch_size,
                  InitialExpectedHash(log, start_seq))

VerifyChain(start_seq, batch_size) ==
    /\ LET res == verify_chain_integrity(auditLog, start_seq, batch_size)
       IN verifyResult' = [called |-> TRUE, start_seq |-> start_seq,
                           batch_size |-> batch_size, valid |-> res[1],
                           first_invalid |-> res[2],
                           tampered |-> tampered]
    /\ UNCHANGED <<auditLog, apc, prev, sequence_lock, returned, logRaised,
                   logCalls, nextEventId, auditNow, tampered>>
    /\ UNCHANGED <<jobVars, poolVars, authVars, submitVars>>

\* A stored field of one committed row is altered in place, behind the
\* logger's back (the case the verifier exists for).
TamperedFields == {"action", "outcome", "record_hash"}

Tamper(seq, field) ==
    /\ tampered = None
    /\ \E r \in auditLog :
        /\ r.sequence_number = seq
        /\ auditLog' = (auditLog \ {r}) \cup
              {IF field = "action" THEN [r EXCEPT !.action = "job.delete"]
               ELSE IF field = "outcome"
                    THEN [r EXCEPT !.outcome = "failure"]
                    ELSE [r EXCEPT !.record_hash = sha256(<<"forged">>)]}
    /\ tampered' = seq
    /\ UNCHANGED <<apc, prev, sequence_lock, returned, logRaised, logCalls,
                   nextEventId, auditNow, verifyResult>>
    /\ UNCHANGED <<jobVars, poolVars, authVars, submitVars>>

\* One committed row is deleted behind the logger's back, which leaves its
\* sequence number missing.
RemoveRecord(seq) ==
    /\ tampered = None
    /\ \E r \in auditLog :
        /\ r.sequence_number = seq
        /\ auditLog' = auditLog \ {r}
    /\ tampered' = seq
    /\ UNCHANGED <<apc, prev, sequence_lock, returned, logRaised, logCalls,
                   nextEventId, auditNow, verifyResult>>
    /\ UNCHANGED <<jobVars, poolVars, authVars, submitVars>>

AuditNext ==
    \/ \E c \in Callers : LogSelect(c)
    \/ \E c \in Callers : LogInsert(c)
    \/ \E start_seq \in 1..(MaxLogCalls + 1), batch_size \in 1..MaxBatch :
          VerifyChain(start_seq, batch_size)

AuditTamperNext ==
    \/ AuditNext
    \/ \E seq \in 1..MaxLogCalls, field \in TamperedFields :
          Tamper(seq, field)

AuditRemoveNext ==
    \/ AuditNext
    \/ \E seq \in 1..MaxLogCalls : RemoveRecord(seq)

(***************************************************************************)
(* Claims about the audit log                                              *)
(***************************************************************************)
\* C5: the committed records carry the sequence numbers 1..n (first is 1,
\* no gap, no duplicate), whichever threads, loggers or processes wrote
\* them, and every event id a log call returned belongs to exactly one
\* committed record.
C5_SequenceGapFree ==
    /\ {r.sequence_number : r \in auditLog} = 1..Cardinality(auditLog)
    /\ \A e \in returned :
          Cardinality({r \in auditLog : r.event_id = e}) = 1

\* two records are committed and a concurrent call of another logger was
\* rejected on the way
C5_Witness ==
    /\ Cardinality(auditLog) >= 2
    /\ logRaised >= 1
    /\ Cardinality(returned) >= 2

\* C6: the record with sequence 1 has the sentinel as previous_hash, and
\* every record with sequence s > 1 has the record_hash of record s - 1.
C6_ChainLinked ==
    \A r \in auditLog :
        IF r.sequence_number = 1
        THEN r.previous_hash = Sentinel
        ELSE \E q \in auditLog :
                /\ q.sequence_number = r.sequence_number - 1
                /\ r.previous_hash = q.record_hash

\* a chain of three records exists
C6_Witness ==
    \E r \in auditLog : r.sequence_number = 3

\* C7: after one stored field of record s was altered, a verification
\* from 1 returned (false, s) and a verification from s + 1 returned
\* (true, none), for every batch size.
C7_FirstOffendingSequence ==
    (verifyResult.called /\ verifyResult.tampered # None) =>
        /\ verifyResult.start_seq = 1 =>
              (/\ ~verifyResult.valid
               /\ verifyResult.first_invalid = verifyResult.tampered)
        /\ verifyResult.start_seq = verifyResult.tampered + 1 =>
              (/\ verifyResult.valid
               /\ verifyResult.first_invalid = None)

\* C8: on a log written only by log calls, a verification from 1 returned
\* (true, none), for every batch size.
C8_UntamperedLogVerifies ==
    (verifyResult.called /\ verifyResult.start_seq = 1) =>
        (verifyResult.valid /\ verifyResult.first_invalid = None)

\* C36: on every log, one with a removed record included, and from every
\* start, verify_chain_integrity returns the same result whatever the batch
\* size.
C36_BatchSizeIndependent ==
    \A start_seq \in 1..(MaxLogCalls + 1) :
        \A k1 \in 1..MaxBatch, k2 \in 1..MaxBatch :
            verify_chain_integrity(auditLog, start_seq, k1)
                = verify_chain_integrity(auditLog, start_seq, k2)

(***************************************************************************)
(* Model pool (model_pool.py)                                              *)
(***************************************************************************)
Threads == 1..NumThreads

\* Tiers the threads ask for.
RequestedSizes == {"tiny", "base"}

\* datetime.now(): the value read, then the clock moves on.
PoolTick(t) == IF t < MaxPoolClock THEN t + 1 ELSE t

NoExc == "none"

\* The module as imported: _model_pool is None (pool_size and max_pool_size
\* stand for the fields of the pool that does not exist yet).
PoolInit ==
    /\ pool_size = None
    /\ max_pool_size = None
    /\ models = << >>
    /\ loaded_models = {}
    /\ instances = << >>
    /\ stats = [hits |-> 0, misses |-> 0, evictions |-> 0, oom_fallbacks |-> 0]
    /\ poolNow = 1
    /\ tpc = [t \in Threads |-> "idle"]
    /\ treq = [t \in Threads |-> "tiny"]
    /\ tload = [t \in Threads |-> "tiny"]
    /\ held = [t \in Threads |-> None]
    /\ texc = [t \in Threads |-> NoExc]
    /\ acquires = 0
    /\ returns = << >>
    /\ ooms = [t \in Threads |-> 0]

\* get_model_pool on first use: ModelPool.__init__ with the configured
\* pool_size and max_pool_size.
GetModelPool(size, max) ==
    /\ pool_size = None
    /\ pool_size' = size
    /\ max_pool_size' = max
    /\ UNCHANGED <<models, loaded_models, instances, stats, poolNow, tpc, treq, tload, held, texc, acquires, returns, ooms>>
    /\ UNCHANGED <<jobVars, auditVars, authVars, submitVars>>

\* _total_models_loaded
total_models_loaded(loaded) == Cardinality(loaded)

\* The key min() picks in _evict_lru_model: smallest last_used, the first
\* inserted among equals.
LruId(loaded, insts) ==
    CHOOSE i \in loaded : \A j \in loaded :
        \/ insts[i].last_used < insts[j].last_used
        \/ (insts[i].last_used = insts[j].last_used /\ i <= j)

\* `yield instance.model` in acquire_model: the block runs if the attribute
\* is there, AttributeError otherwise.
Yield(inst) == IF inst.has_model THEN "working" ELSE "yield_failed"

\* acquire_model entered: acquire creates the tier's queue if it is missing
\* and goes on to queue.get.
AcquireBegin(t, size) ==
    /\ pool_size # None
    /\ tpc[t] = "idle"
    /\ acquires < MaxAcquires
    /\ acquires' = acquires + 1
    /\ models' = IF size \in DOMAIN models THEN models ELSE models @@ (size :> << >>)
    /\ treq' = [treq EXCEPT ![t] = size]
    /\ texc' = [texc EXCEPT ![t] = NoExc]
    /\ ooms' = [ooms EXCEPT ![t] = 0]
    /\ tpc' = [tpc EXCEPT ![t] = "waiting"]
    /\ UNCHANGED <<pool_size, max_pool_size, loaded_models, instances, stats, poolNow, tload, held, returns>>
    /\ UNCHANGED <<jobVars, auditVars, authVars, submitVars>>

\* instance.use_count += 1
NextUseCount_Unchanged(n) == n

NextUseCount(n) == n + 1

\* model_pool.py 154: queue.get returned the instance at the head of the
\* tier's queue.  The thread holds it from here on; nothing else of the
\* instance or the pool has changed yet.
AcquireGet(t) ==
    /\ tpc[t] = "waiting"
    /\ models[treq[t]] # << >>
    /\ LET i == Head(models[treq[t]])
       IN /\ models' = [models EXCEPT ![treq[t]] = Tail(@)]
          /\ held' = [held EXCEPT ![t] = i]
    /\ tpc' = [tpc EXCEPT ![t] = "got"]
    /\ UNCHANGED <<pool_size, max_pool_size, loaded_models, instances, stats, poolNow, treq, tload, texc, acquires, returns, ooms>>
    /\ UNCHANGED <<jobVars, auditVars, authVars, submitVars>>

\* model_pool.py 155-166: use_count and last_used are written outside the
\* pool lock, hits under it; acquire returns the instance and acquire_model
\* yields its model.
AcquireTouch(t) ==
    /\ tpc[t] = "got"
    /\ LET i == held[t]
       IN /\ instances' = [instances EXCEPT ![i].use_count = NextUseCount(@), ![i].last_used = poolNow]
          /\ returns' = [returns EXCEPT ![i] = @ + 1]
          /\ tpc' = [tpc EXCEPT ![t] = Yield(instances[i])]
    /\ poolNow' = PoolTick(poolNow)
    /\ stats' = [stats EXCEPT !.hits = @ + 1]
    /\ UNCHANGED <<pool_size, max_pool_size, models, loaded_models, held, treq, tload, texc, acquires, ooms>>
    /\ UNCHANGED <<jobVars, auditVars, authVars, submitVars>>

\* model_pool.py 170-171: self._stats['misses'] += 1
CountMiss_Skipped(s) == s

CountMiss(s) == [s EXCEPT !.misses = @ + 1]

\* queue.get timed out on an empty queue: queue.Empty, misses.
AcquireTimeout(t) ==
    /\ tpc[t] = "waiting"
    /\ models[treq[t]] = << >>
    /\ stats' = CountMiss(stats)
    /\ tpc' = [tpc EXCEPT ![t] = "miss"]
    /\ UNCHANGED <<pool_size, max_pool_size, models, loaded_models, instances, poolNow, treq, tload, held, texc, acquires, returns, ooms>>
    /\ UNCHANGED <<jobVars, auditVars, authVars, submitVars>>

\* The capacity test of acquire.
NeedsEviction(total, max) == total >= max

\* `if self._total_models_loaded() >= self.max_pool_size`, read on its own.
AcquireCheck(t) ==
    /\ tpc[t] = "miss"
    /\ tpc' = [tpc EXCEPT ![t] = IF NeedsEviction(total_models_loaded(loaded_models), max_pool_size) THEN "evict" ELSE "load"]
    /\ tload' = [tload EXCEPT ![t] = treq[t]]
    /\ UNCHANGED <<pool_size, max_pool_size, models, loaded_models, instances, stats, poolNow, treq, held, texc, acquires, returns, ooms>>
    /\ UNCHANGED <<jobVars, auditVars, authVars, submitVars>>

\* _evict_lru_model, then _unload_model of the instance it picked.
AcquireEvict(t) ==
    /\ tpc[t] = "evict"
    /\ IF loaded_models = {}
       THEN UNCHANGED <<loaded_models, instances, stats>>
       ELSE LET lru_id == LruId(loaded_models, instances)
            IN /\ stats' = [stats EXCEPT !.evictions = @ + 1]
               /\ loaded_models' = loaded_models \ {lru_id}
               /\ instances' = [instances EXCEPT ![lru_id].has_model = FALSE]
    /\ tpc' = [tpc EXCEPT ![t] = "load"]
    /\ UNCHANGED <<pool_size, max_pool_size, models, poolNow, treq, tload, held, texc, acquires, returns, ooms>>
    /\ UNCHANGED <<jobVars, auditVars, authVars, submitVars>>

\* _load_model succeeded: a new instance, tracked; acquire returns it.
LoadOk(t) ==
    /\ tpc[t] = "load"
    /\ LET i == Len(instances) + 1
           inst == [model_size |-> tload[t], last_used |-> poolNow, use_count |-> 0, has_model |-> TRUE]
       IN /\ instances' = Append(instances, inst)
          /\ returns' = Append(returns, 1)
          /\ loaded_models' = loaded_models \cup {i}
          /\ held' = [held EXCEPT ![t] = i]
          /\ tpc' = [tpc EXCEPT ![t] = Yield(inst)]
    /\ poolNow' = PoolTick(poolNow)
    /\ UNCHANGED <<pool_size, max_pool_size, models, stats, treq, tload, texc, acquires, ooms>>
    /\ UNCHANGED <<jobVars, auditVars, authVars, submitVars>>

\* size_hierarchy[current_idx - 1] (1-based here)
SmallerSize_Same(idx) == size_hierarchy[idx]

SmallerSize(idx) == size_hierarchy[idx - 1]

\* whisper.load_model ran out of memory: oom_fallbacks, then
\* _fallback_to_smaller_model loads the next smaller size or raises.
LoadOom(t) ==
    /\ tpc[t] = "load"
    /\ stats.oom_fallbacks < MaxOom
    /\ stats' = [stats EXCEPT !.oom_fallbacks = @ + 1]
    /\ ooms' = [ooms EXCEPT ![t] = @ + 1]
    /\ LET current_idx == SizeIndex(tload[t])
       IN IF current_idx > 1
          THEN /\ tload' = [tload EXCEPT ![t] = SmallerSize(current_idx)]
               /\ UNCHANGED <<tpc, texc>>
          ELSE /\ tpc' = [tpc EXCEPT ![t] = "idle"]
               /\ texc' = [texc EXCEPT ![t] = "RuntimeError"]
               /\ UNCHANGED tload
    /\ UNCHANGED <<pool_size, max_pool_size, models, loaded_models, instances, poolNow, treq, held, acquires, returns>>
    /\ UNCHANGED <<jobVars, auditVars, authVars, submitVars>>

\* put_nowait raises queue.Full when the tier's queue holds pool_size items.
QueueFull_OffByOne(q, size) == Len(q) > size

QueueFull(q, size) == Len(q) >= size

\* What the acquire_model block raises once release has run: release's own
\* exception, else the one the block was left with.
Raised(at, releaseExc) ==
    IF releaseExc # NoExc THEN releaseExc
    ELSE IF at = "yield_failed" THEN "AttributeError" ELSE NoExc

\* The finally of acquire_model: release, with _unload_model when the
\* tier's queue is full.
Release(t) ==
    /\ tpc[t] \in {"working", "yield_failed"}
    /\ LET i == held[t]
           size == instances[i].model_size
       IN IF size \notin DOMAIN models
          THEN /\ texc' = [texc EXCEPT ![t] = "KeyError"]
               /\ UNCHANGED <<models, loaded_models, instances>>
          ELSE IF ~QueueFull(models[size], pool_size)
          THEN /\ models' = [models EXCEPT ![size] = Append(@, i)]
               /\ texc' = [texc EXCEPT ![t] = Raised(tpc[t], NoExc)]
               /\ UNCHANGED <<loaded_models, instances>>
          ELSE /\ loaded_models' = loaded_models \ {i}
               /\ instances' = [instances EXCEPT ![i].has_model = FALSE]
               /\ texc' = [texc EXCEPT ![t] = Raised(tpc[t], IF instances[i].has_model THEN NoExc ELSE "AttributeError")]
               /\ UNCHANGED models
    /\ held' = [held EXCEPT ![t] = None]
    /\ tpc' = [tpc EXCEPT ![t] = "idle"]
    /\ UNCHANGED <<pool_size, max_pool_size, stats, poolNow, treq, tload, acquires, returns, ooms>>
    /\ UNCHANGED <<jobVars, auditVars, authVars, submitVars>>

PoolNext ==
    \/ \E size \in 1..MaxPoolConfig, max \in 1..MaxPoolConfig : GetModelPool(size, max)
    \/ \E t \in Threads, size \in RequestedSizes : AcquireBegin(t, size)
    \/ \E t \in Threads : AcquireGet(t)
    \/ \E t \in Threads : AcquireTouch(t)
    \/ \E t \in Threads : AcquireTimeout(t)
    \/ \E t \in Threads : AcquireCheck(t)
    \/ \E t \in Threads : AcquireEvict(t)
    \/ \E t \in Threads : LoadOk(t)
    \/ \E t \in Threads : LoadOom(t)
    \/ \E t \in Threads : Release(t)

(***************************************************************************)
(* Model pool: claims                                                      *)
(***************************************************************************)
\* C9: in every reachable state the number of loaded model instances is at
\* most max_pool_size.
C9_LoadedAtMostMax ==
    total_models_loaded(loaded_models) <= max_pool_size

\* C10: as long as no load has run out of memory, every acquire that
\* returns hands its worker an instance whose model is loaded, and no
\* worker's acquire / work / release raises.
C10_WorkersGetUsableHandle ==
    stats.oom_fallbacks = 0 =>
        \A t \in Threads : tpc[t] # "yield_failed" /\ texc[t] = NoExc

\* The instances sitting in some tier's queue (released and not taken again).
FreeInstances == UNION {{models[size][k] : k \in 1..Len(models[size])} : size \in DOMAIN models}

\* The step is thread t's release (the finally of acquire_model).
ReleaseStep(t) == tpc[t] \in {"working", "yield_failed"} /\ tpc'[t] = "idle"

\* C11 (as claimed): a released instance's use_count equals the number of
\* acquire calls that returned it, the one that loaded it included.
C11_UseCountCountsEveryAcquire ==
    \A i \in FreeInstances : instances[i].use_count = returns[i]

\* C11 (amended): an instance's use_count equals the number of acquire calls
\* that returned it from a tier's queue, that is, every acquire that
\* returned it except the one that loaded it.
C11_UseCountCountsReuses ==
    \A i \in 1..Len(instances) : instances[i].use_count = returns[i] - 1

\* C11 witness: an instance that was loaded, released, taken again and
\* released again.
C11_Witness ==
    \E i \in FreeInstances : returns[i] >= 2

\* C12: after a release the queue of the released instance's tier holds at
\* most pool_size instances, and a release that finds the queue at
\* pool_size leaves the queue as it was and the instance out of the loaded
\* set.
C12_FreeSetWithinPoolSize ==
    [][\A t \in Threads :
        (ReleaseStep(t) /\ instances[held[t]].model_size \in DOMAIN models) =>
            LET i == held[t]
                size == instances[i].model_size
            IN /\ Len(models'[size]) <= pool_size
               /\ Len(models[size]) >= pool_size =>
                    (i \notin loaded_models' /\ models' = models)]_vars

\* C12 witness: with no eviction so far, an instance that release unloaded
\* because its tier's queue was full.
C12_Witness ==
    /\ stats.evictions = 0
    /\ \E i \in 1..Len(instances) :
        /\ ~instances[i].has_model
        /\ i \notin loaded_models
        /\ i \notin FreeInstances
        /\ Len(models[instances[i].model_size]) = pool_size

\* C13: an out-of-memory error while loading adds one to oom_fallbacks and
\* moves the load to the next smaller tier, or fails the acquire with
\* RuntimeError when the tier was tiny; the instance an acquire returns
\* after n such errors is n tiers below the requested one.
C13_OomFallsBackTierByTier ==
    [][/\ stats'.oom_fallbacks # stats.oom_fallbacks =>
            /\ stats'.oom_fallbacks = stats.oom_fallbacks + 1
            /\ \E t \in Threads :
                /\ tpc[t] = "load"
                /\ IF tload[t] = "tiny"
                   THEN /\ tpc'[t] = "idle"
                        /\ texc'[t] = "RuntimeError"
                        /\ held'[t] = None
                        /\ instances' = instances
                   ELSE /\ tpc'[t] = "load"
                        /\ SizeIndex(tload'[t]) = SizeIndex(tload[t]) - 1
       /\ \A t \in Threads :
            (tpc[t] = "load" /\ held'[t] # None) =>
                SizeIndex(instances'[held'[t]].model_size) = SizeIndex(treq[t]) - ooms[t]]_vars

\* C13 witness: an acquire of base that ran out of memory once and returned
\* a tiny instance, and an acquire that raised because tiny ran out of memory.
C13_Witness ==
    /\ \E t \in Threads :
        /\ held[t] # None
        /\ treq[t] = "base"
        /\ ooms[t] = 1
        /\ instances[held[t]].model_size = "tiny"
    /\ \E t \in Threads :
        /\ texc[t] = "RuntimeError"
        /\ ooms[t] >= 1
        /\ held[t] = None

\* C14: an acquire whose queue.get times out fails with queue.Empty and
\* returns no instance.
C14_TimeoutFails ==
    [][\A t \in Threads :
        (tpc[t] = "waiting" /\ tpc'[t] # "waiting" /\ models[treq[t]] = << >>) =>
            (tpc'[t] = "idle" /\ texc'[t] = "Empty" /\ held'[t] = None)]_vars

\* C30: an acquire that finds its tier's queue empty while fewer than
\* max_pool_size models are loaded goes on to load without waiting: a
\* thread sits out the timeout of queue.get only when the pool is at
\* capacity.
C30_LoadsWithoutWaitingBelowCapacity ==
    [][\A t \in Threads :
        (tpc[t] = "waiting" /\ tpc'[t] = "miss") =>
            total_models_loaded(loaded_models) >= max_pool_size]_vars

\* last_used of instance i in a snapshot that includes the updates of the
\* acquires under way: an instance a thread has taken from its queue and is
\* about to stamp counts as used now.
SnapshotLastUsed(i) ==
    IF \E t \in Threads : tpc[t] = "got" /\ held[t] = i
    THEN poolNow
    ELSE instances[i].last_used

\* i is not more recently used than j: smaller last_used, use_count
\* deciding between equals.
LruBefore(i, j) ==
    \/ SnapshotLastUsed(i) < SnapshotLastUsed(j)
    \/ /\ SnapshotLastUsed(i) = SnapshotLastUsed(j)
       /\ instances[i].use_count <= instances[j].use_count

\* The step is the eviction of thread t's acquire.
EvictStep(t) == tpc[t] = "evict" /\ tpc'[t] = "load"

\* C31: the eviction an acquire makes before it loads at capacity removes
\* exactly one loaded instance, the one least recently used among all the
\* loaded ones (smallest last_used, ties broken by use_count), judged on a
\* snapshot consistent with the concurrent acquires.
C31_EvictsLeastRecentlyUsed ==
    [][\A t \in Threads : EvictStep(t) =>
        \E i \in loaded_models :
            /\ loaded_models' = loaded_models \ {i}
            /\ \A j \in loaded_models : LruBefore(i, j)]_vars

RECURSIVE SumSeq(_)
\* the sum of a sequence of numbers
SumSeq(seq) == IF seq = << >> THEN 0 ELSE Head(seq) + SumSeq(Tail(seq))

\* Every acquire call made so far has returned or raised.
NoAcquireInFlight == \A t \in Threads : tpc[t] \in {"idle", "working", "yield_failed"}

\* The acquires that returned an instance taken from a queue: all the
\* returns of all instances except the return of each by its load.
ServedFromQueue == SumSeq(returns) - Len(returns)

\* The step is thread t's queue.get handing it an instance.
GetStep(t) == tpc[t] = "waiting" /\ tpc'[t] = "got"

C33_FreeInstancesAreLoaded ==
    \A i \in FreeInstances : i \in loaded_models /\ instances[i].has_model

\* C34: an instance a thread has borrowed and not yet released is in the
\* loaded set with its model in place.
C34_BorrowedInstanceStaysLoaded ==
    \A t \in Threads : held[t] # None =>
        (held[t] \in loaded_models /\ instances[held[t]].has_model)

\* C35: release of an instance that acquire returned raises nothing, and
\* after it the instance is in the queue of its own tier or is unloaded and
\* out of the loaded set.
C35_ReleaseNeverRaises ==
    [][\A t \in Threads : (tpc[t] = "working" /\ tpc'[t] = "idle") =>
        LET i == held[t]
            size == instances[i].model_size
        IN /\ texc'[t] = NoExc
           /\ \/ /\ size \in DOMAIN models'
                 /\ \E k \in 1..Len(models'[size]) : models'[size][k] = i
              \/ (i \notin loaded_models' /\ ~instances'[i].has_model)]_vars

(***************************************************************************)
(* API authentication and rate limiting (auth.py) and the admin endpoints  *)
(* (app.py)                                                                *)
(***************************************************************************)
\* VALID_API_KEYS = set(os.getenv("API_KEYS", "").split(",")): two keys are
\* configured.
VALID_API_KEYS == {"k1", "k2"}

\* A request without the X-API-Key header.
NoKey == ""

\* The keys a request may carry: none, one that is not configured, or a
\* configured one.
RequestKeys == {NoKey, "bad"} \cup VALID_API_KEYS

\* The values time.time() takes while requests arrive: two moments of
\* window 0 and one of window 2.
ClockValues == {0, 59, 2 * RATE_LIMIT_WINDOW}

\* The key that sends up to MaxRequests requests in a window; the other
\* keys send up to MaxOtherRequests.
BusyKey == "k1"

RequestBudget(key) == IF key = BusyKey THEN MaxRequests ELSE MaxOtherRequests

NoResp == [endpoint |-> "none", key |-> NoKey, status |-> 0, retry_after |-> 0, n |-> 0, data |-> FALSE]

AuthInit ==
    /\ rate_limit_storage = << >>
    /\ authNow = 0
    /\ resp = NoResp
    /\ sent = [k \in VALID_API_KEYS |-> [window |-> 0, n |-> 0]]

\* auth.py 44-64: 401 without a key or with a key whose hash is not among
\* the hashes of the configured keys, otherwise the key is accepted (200).
validate_api_key(api_key) ==
    LET api_key_hash == sha256(api_key)
        valid_hashes == {sha256(key) : key \in VALID_API_KEYS \ {NoKey}}
    IN IF api_key = NoKey THEN 401
       ELSE IF valid_hashes = {} \/ api_key_hash \notin valid_hashes THEN 401
       ELSE 200

\* current_time // RATE_LIMIT_WINDOW
Window(t) == t \div RATE_LIMIT_WINDOW

\* auth.py 84-92: the key's entry, created if missing, without the windows
\* older than the previous one.
CleanedUp(storage, api_key, current_window) ==
    LET old == IF api_key \in DOMAIN storage THEN storage[api_key] ELSE << >>
    IN [window \in {x \in DOMAIN old : x >= current_window - 1} |-> old[window]]

\* auth.py 95-97: the count of the current window, this request included.
Incremented(entry, current_window) ==
    (IF current_window \in DOMAIN entry THEN entry[current_window] ELSE 0) + 1

\* auth.py 100: the limit is exceeded.
OverLimit_Inclusive(count) == count >= RATE_LIMIT_REQUESTS

OverLimit(count) == count > RATE_LIMIT_REQUESTS

\* A request to an endpoint that depends on check_rate_limit (auth.py
\* 67-111), which itself depends on validate_api_key: 401 for a bad key
\* before anything is counted; otherwise the key's count of the current
\* window is incremented and the request is answered 429 with Retry-After
\* when the count is over the limit, and admitted otherwise.
CheckRateLimit(api_key) ==
    /\ api_key \in RequestKeys
    /\ IF validate_api_key(api_key) # 200
       THEN /\ resp' = [endpoint |-> "rate_limited", key |-> api_key, status |-> 401, retry_after |-> 0, n |-> 0, data |-> FALSE]
            /\ UNCHANGED <<rate_limit_storage, sent>>
       ELSE /\ LET current_window == Window(authNow)
                   entry == CleanedUp(rate_limit_storage, api_key, current_window)
                   count == Incremented(entry, current_window)
                   n == IF sent[api_key].window = current_window THEN sent[api_key].n + 1 ELSE 1
               IN /\ n <= RequestBudget(api_key)
                  /\ rate_limit_storage' = [k \in DOMAIN rate_limit_storage \cup {api_key} |->
                        IF k = api_key
                        THEN [w \in DOMAIN entry \cup {current_window} |-> IF w = current_window THEN count ELSE entry[w]]
                        ELSE rate_limit_storage[k]]
                  /\ sent' = [sent EXCEPT ![api_key] = [window |-> current_window, n |-> n]]
                  /\ resp' = IF OverLimit(count)
                             THEN [endpoint |-> "rate_limited", key |-> api_key, status |-> 429, retry_after |-> RATE_LIMIT_WINDOW, n |-> n, data |-> FALSE]
                             ELSE [endpoint |-> "rate_limited", key |-> api_key, status |-> 200, retry_after |-> 0, n |-> n, data |-> TRUE]
    /\ UNCHANGED authNow
    /\ UNCHANGED <<jobVars, auditVars, poolVars, submitVars>>

\* The clock moves on to its next value.
AuthTick ==
    /\ \E t \in ClockValues :
        /\ t > authNow
        /\ \A u \in ClockValues : u > authNow => t <= u
        /\ authNow' = t
    /\ UNCHANGED <<rate_limit_storage, resp, sent>>
    /\ UNCHANGED <<jobVars, auditVars, poolVars, submitVars>>

\* app.py 271-314, GET /admin/health: the handler depends on get_db only
\* and answers with the health data.
AdminHealth(api_key) ==
    /\ api_key \in RequestKeys
    /\ resp' = [endpoint |-> "/admin/health", key |-> api_key, status |-> 200, retry_after |-> 0, n |-> 0, data |-> TRUE]
    /\ UNCHANGED <<rate_limit_storage, authNow, sent>>
    /\ UNCHANGED <<jobVars, auditVars, poolVars, submitVars>>

\* app.py 317-353, GET /admin/errors: the handler depends on get_db only
\* and answers with the error logs.
AdminErrors(api_key) ==
    /\ api_key \in RequestKeys
    /\ resp' = [endpoint |-> "/admin/errors", key |-> api_key, status |-> 200, retry_after |-> 0, n |-> 0, data |-> TRUE]
    /\ UNCHANGED <<rate_limit_storage, authNow, sent>>
    /\ UNCHANGED <<jobVars, auditVars, poolVars, submitVars>>

AuthNext ==
    \/ \E api_key \in RequestKeys : CheckRateLimit(api_key)
    \/ AuthTick
    \/ \E api_key \in RequestKeys : AdminHealth(api_key)
    \/ \E api_key \in RequestKeys : AdminErrors(api_key)

(***************************************************************************)
(* Claims about authentication and rate limiting                           *)
(***************************************************************************)
AdminEndpoints == {"/admin/health", "/admin/errors"}

\* C26: a request to an admin endpoint without a key or with a key that is
\* not configured is answered 401 without data; a request with a valid key
\* is answered 200.
C26_AdminRequiresApiKey ==
    resp.endpoint \in AdminEndpoints =>
        IF validate_api_key(resp.key) = 200
        THEN resp.status = 200
        ELSE resp.status = 401 /\ ~resp.data

\* C27: the n-th request of a key within one window is admitted when
\* n <= 100 and answered 429 with Retry-After 60 when n > 100, whatever
\* the other keys have sent.
C27_HundredPerWindowPerKey ==
    (resp.endpoint = "rate_limited" /\ resp.status # 401) =>
        IF resp.n <= 100
        THEN resp.status = 200
        ELSE resp.status = 429 /\ resp.retry_after = 60

\* C27 witness: the 101st request of a key in a window has just been
\* rejected while another key has requests counted in the same window.
C27_Witness ==
    /\ resp.endpoint = "rate_limited"
    /\ resp.n = 101
    /\ resp.status = 429
    /\ \E k \in VALID_API_KEYS \ {resp.key} :
        /\ sent[k].n >= 1
        /\ sent[k].window = sent[resp.key].window

(***************************************************************************)
(* Specifications                                                          *)
(***************************************************************************)
Init == JobInit /\ AuditInit /\ PoolInit /\ AuthInit

SpecJob == Init /\ [][JobNext]_vars

InitRetried == JobRetriedInit /\ AuditInit /\ PoolInit /\ AuthInit

SpecJobRetried == InitRetried /\ [][JobNext]_vars

SpecJobLive == Init /\ [][JobNext]_vars /\ WF_vars(JobProgress)

SpecAudit == Init /\ [][AuditNext]_vars

SpecAuditTamper == Init /\ [][AuditTamperNext]_vars

SpecAuditRemove == Init /\ [][AuditRemoveNext]_vars

SpecPool == Init /\ [][PoolNext]_vars

SpecAuth == Init /\ [][AuthNext]_vars

SpecDlq == Init /\ [][DlqNext]_vars

InitSubmit == SubmitInit /\ AuditInit /\ PoolInit /\ AuthInit

SpecSubmit == InitSubmit /\ [][SubmitNext]_vars

=============================================================================
